---- MODULE Spec2Model ----
(***************************************************************************)
(* A model of pygear3dgen: the wavefront mesh builder (wavefront.py) and   *)
(* the gear generator that drives it (gear3dgen.py).                       *)
(*                                                                         *)
(* Numbers.  A Python float is modelled as a fixed-point number: the       *)
(* integer n stands for n / Res.  Every float operation rounds its exact   *)
(* result to that resolution (ties to even), as IEEE arithmetic rounds to  *)
(* the nearest representable value.  round(x, nd) is decimal rounding with *)
(* ties to even, which is what Python computes for values whose binary     *)
(* representation is exact; the coordinates the builder actions draw       *)
(* (multiples of 0.125) are of that kind.                                  *)
(***************************************************************************)
EXTENDS Integers, Sequences, FiniteSets, TLC

VARIABLES
    vertices,     \* wavefront.vertices: list of rounded (x, y, z)
    verticeset,   \* wavefront.verticeset: set of rounded (x, y, z)
    faces,        \* wavefront.faces: list of 0-based index triples
    doubleface,   \* wavefront.doubleface
    crounding,    \* wavefront.crounding
    last,         \* the last call on the builder: its arguments and outcome
    outf,         \* the file handle of the last save: "none", "open", "closed"
    storage,      \* content of the output file ("absent" before any write)
    pc,           \* gear3dgen: position in the function body
    gargs,        \* gear3dgen: the call's arguments
    vlayers,      \* gear3dgen: local vlayers (after the anglefunc default)
    gearprofile,  \* gear3dgen: local gearprofile
    geargeometry, \* gear3dgen: local geargeometry
    layer,        \* gear3dgen: loop variable of the side-wall loop
    point,        \* gear3dgen: loop variable of the point loops
    calls         \* number of calls made on the builder so far

bvars == <<vertices, verticeset, faces, doubleface, crounding>>
gvars == <<pc, gargs, vlayers, gearprofile, geargeometry, layer, point>>
vars == <<vertices, verticeset, faces, doubleface, crounding, last, outf,
          storage, pc, gargs, vlayers, gearprofile, geargeometry, layer, point,
          calls>>

(***************************************************************************)
(* Bounds of the model.                                                    *)
(***************************************************************************)
MaxCalls == 3        \* calls made on one builder
MaxTeeth == 2        \* gear3dgen: teeth in 1..MaxTeeth
MaxToothPts == 3     \* gear3dgen: toothpts in 1..MaxToothPts
MaxVLayers == 3      \* gear3dgen: vlayers in 2..MaxVLayers

(***************************************************************************)
(* Fixed-point floats.                                                     *)
(***************************************************************************)
Res == 10 * 10 * 10

Pow10(n) == IF n = 0 THEN 1 ELSE IF n = 1 THEN 10 ELSE IF n = 2 THEN 100 ELSE 1000

\* n / d rounded to the nearest integer, ties to even (d > 0).
RoundHalfEven(n, d) ==
    LET f == n \div d
        r == n % d
    IN  IF 2 * r < d THEN f
        ELSE IF 2 * r > d THEN f + 1
        ELSE IF f % 2 = 0 THEN f ELSE f + 1

\* round(float(x), nd) for 0 <= nd <= 3: x rounded to nd decimals.
round(x, nd) ==
    LET q == Pow10(3 - nd) IN q * RoundHalfEven(x, q)

(***************************************************************************)
(* wavefront: the mesh builder.                                            *)
(***************************************************************************)
\* list.index(v): the 0-based position of the first element equal to v.
IndexOf(vs, v) ==
    (CHOOSE i \in 1..Len(vs) : vs[i] = v /\ \A j \in 1..(i - 1) : vs[j] # v) - 1

RoundPoint(p, nd) == <<round(p[1], nd), round(p[2], nd), round(p[3], nd)>>

\* The builder as a value: the fields the adding methods read and write.
Builder == [vertices |-> vertices, verticeset |-> verticeset, faces |-> faces]

\* addvertex looking the unrounded triple up in the set.
addvertexRawKey(b, p, nd) ==
    LET v == RoundPoint(p, nd)
        vs == IF p \notin b.verticeset THEN Append(b.vertices, v) ELSE b.vertices
    IN  [vertices   |-> vs,
         verticeset |-> b.verticeset \cup {p},
         faces      |-> b.faces,
         index      |-> IndexOf(vs, v)]

\* addvertex(x, y, z): the builder afterwards and the index returned.
addvertex(b, p, nd) ==
    LET v == RoundPoint(p, nd)
        vs == IF v \notin b.verticeset THEN Append(b.vertices, v) ELSE b.vertices
    IN  [vertices   |-> vs,
         verticeset |-> b.verticeset \cup {v},
         faces      |-> b.faces,
         index      |-> IndexOf(vs, v)]

\* Three consecutive scalars each, condensed into points (lines 30-34, 55-60).
Condense(s) == [i \in 1..(Len(s) \div 3) |-> <<s[3 * i - 2], s[3 * i - 1], s[3 * i]>>]

Reverse(t) == <<t[3], t[2], t[1]>>

\* FacesAdded without triangle.reverse().
FacesAddedSameWinding(triangle, df) ==
    IF df THEN <<triangle, triangle>> ELSE <<triangle>>

\* FacesAdded dropping a triangle with a repeated vertex.
FacesAddedSkipDegenerate(triangle, df) ==
    IF triangle[1] = triangle[2] \/ triangle[2] = triangle[3] \/ triangle[1] = triangle[3]
      THEN <<>>
      ELSE IF df THEN <<triangle, Reverse(triangle)>> ELSE <<triangle>>

\* The faces one triangle adds (lines 49-52).
FacesAdded(triangle, df) ==
    IF df THEN <<triangle, Reverse(triangle)>> ELSE <<triangle>>

\* An argument list: positional arguments that are all points (sequences)
\* or all scalars.
PointArgs(ps) == [form |-> "points", points |-> ps, scalars |-> <<>>]
ScalarArgs(ss) == [form |-> "scalars", points |-> <<>>, scalars |-> ss]
NArgs(a) == IF a.form = "points" THEN Len(a.points) ELSE Len(a.scalars)

\* FaceCountOk testing only for too few arguments.
FaceCountAtLeast(n) == n >= 3

\* addface: the argument count the method accepts after condensing.
FaceCountOk(n) == n = 3

\* addface(*args): the builder afterwards and how the call ended.
\* The vertex loop (lines 45-46) stops at the first point that does not
\* unpack into three coordinates, with the earlier points already added.
addface(b, a, df, nd) ==
    LET nine == NArgs(a) = 9
        pts  == IF nine /\ a.form = "scalars" THEN Condense(a.scalars) ELSE a.points
        n    == IF nine THEN 3 ELSE NArgs(a)
        fail(st, bb) == [vertices |-> bb.vertices, verticeset |-> bb.verticeset,
                         faces |-> bb.faces, status |-> st]
    IN  IF ~FaceCountOk(n) THEN fail("ReferenceError", b)
        \* three scalars: tuple(args[d]) raises (line 41)
        ELSE IF ~nine /\ a.form = "scalars" THEN fail("TypeError", b)
        \* nine points, condensed three by three: float(x) raises (line 20)
        ELSE IF nine /\ a.form = "points" THEN fail("TypeError", b)
        ELSE IF Len(pts[1]) # 3 THEN fail("TypeError", b)
        ELSE LET b1 == addvertex(b, pts[1], nd) IN
             IF Len(pts[2]) # 3 THEN fail("TypeError", b1)
        ELSE LET b2 == addvertex(b1, pts[2], nd) IN
             IF Len(pts[3]) # 3 THEN fail("TypeError", b2)
        ELSE LET b3 == addvertex(b2, pts[3], nd)
                 triangle == <<b1.index, b2.index, b3.index>>
             IN  [vertices   |-> b3.vertices,
                  verticeset |-> b3.verticeset,
                  faces      |-> b3.faces \o FacesAdded(triangle, df),
                  status     |-> "ok"]

\* addquad: the argument count the method accepts after condensing.
QuadCountOk(n) == n = 4

\* QuadSplit along the diagonal p2-p4.
QuadSplitOtherDiagonal == <<(<<1, 2, 4>>), (<<2, 3, 4>>)>>

\* The two triangles of a quad (lines 67-68), as positions in its arguments.
QuadSplit == <<(<<1, 2, 3>>), (<<1, 3, 4>>)>>

\* addquad(*args): the builder afterwards and how the call ended.
addquad(b, a, df, nd) ==
    LET twelve == NArgs(a) = 12
        pts == IF twelve /\ a.form = "scalars" THEN Condense(a.scalars) ELSE a.points
        n   == IF twelve THEN 4 ELSE NArgs(a)
        tri(k) == IF a.form = "points" \/ twelve
                    THEN PointArgs(<<pts[QuadSplit[k][1]], pts[QuadSplit[k][2]],
                                     pts[QuadSplit[k][3]]>>)
                    ELSE ScalarArgs(<<a.scalars[QuadSplit[k][1]],
                                      a.scalars[QuadSplit[k][2]],
                                      a.scalars[QuadSplit[k][3]]>>)
    IN  IF ~QuadCountOk(n)
          THEN [vertices |-> b.vertices, verticeset |-> b.verticeset,
                faces |-> b.faces, status |-> "ReferenceError"]
          \* twelve points, condensed three by three: float(x) raises (line 20)
          ELSE IF twelve /\ a.form = "points"
          THEN [vertices |-> b.vertices, verticeset |-> b.verticeset,
                faces |-> b.faces, status |-> "TypeError"]
          ELSE LET r1 == addface(b, tri(1), df, nd) IN
               IF r1.status # "ok" THEN r1 ELSE addface(r1, tri(2), df, nd)

\* zoom / offset applied to one stored vertex at export time (line 81).
Transform(vt, zoom, offset) ==
    <<vt[1] * zoom[1] + offset[1], vt[2] * zoom[2] + offset[2],
      vt[3] * zoom[3] + offset[3]>>

\* SaveText writing the stored 0-based indices.
SaveTextZeroBased(vs, fs, zoom, offset) ==
    <<[tag |-> "o mainobject", ops |-> <<>>]>>
    \o [i \in 1..Len(vs) |-> [tag |-> "v", ops |-> Transform(vs[i], zoom, offset)]]
    \o <<[tag |-> "s off", ops |-> <<>>]>>
    \o [i \in 1..Len(fs) |-> [tag |-> "f", ops |-> fs[i]]]

\* The file content save assembles (lines 79-85), one record per line;
\* a numeral is represented by the number it denotes.
SaveText(vs, fs, zoom, offset) ==
    <<[tag |-> "o mainobject", ops |-> <<>>]>>
    \o [i \in 1..Len(vs) |-> [tag |-> "v", ops |-> Transform(vs[i], zoom, offset)]]
    \o <<[tag |-> "s off", ops |-> <<>>]>>
    \o [i \in 1..Len(fs) |-> [tag |-> "f", ops |-> <<fs[i][1] + 1, fs[i][2] + 1,
                                                      fs[i][3] + 1>>]]

\* WritesFile ignoring returnonly.
WritesAlways(returnonly) == TRUE

\* Whether save writes the file (line 87).
WritesFile(returnonly) == ~returnonly

\* What the operating system can answer to the terminal write of save:
\* everything succeeds, open() raises, or write() raises after open().
IoOutcomes == {"ok", "open raises", "write raises"}

NoArgs == PointArgs(<<>>)
NoFile == [exists |-> FALSE, text |-> <<>>]

\* The record of a call: what was passed and how it ended.
Call(op, a, st, idx, text, zoom, offset, ro) ==
    [op |-> op, args |-> a, status |-> st, index |-> idx, content |-> text,
     zoom |-> zoom, offset |-> offset, returnonly |-> ro]
NoCall == Call("none", NoArgs, "ok", -1, <<>>, <<1, 1, 1>>, <<0, 0, 0>>, FALSE)
BuilderCall(op, a, st, idx) ==
    Call(op, a, st, idx, <<>>, <<1, 1, 1>>, <<0, 0, 0>>, FALSE)

\* save(filename, zoom, offset, returnonly) with the answer io of the
\* operating system: the call record, the handle and the file afterwards.
save(b, zoom, offset, returnonly, io, file) ==
    LET lines == SaveText(b.vertices, b.faces, zoom, offset) IN
    IF ~WritesFile(returnonly)
      THEN [call |-> Call("save", NoArgs, "ok", -1, lines, zoom, offset, returnonly),
            outf |-> "none", storage |-> file]
    ELSE IF io = "open raises"
      THEN [call |-> Call("save", NoArgs, "OSError", -1, <<>>, zoom, offset, returnonly),
            outf |-> "none", storage |-> file]
    ELSE IF io = "write raises"
      \* open(filename, 'w') has truncated the file; close() is never reached
      THEN [call |-> Call("save", NoArgs, "OSError", -1, <<>>, zoom, offset, returnonly),
            outf |-> "open", storage |-> [exists |-> TRUE, text |-> <<>>]]
      ELSE [call |-> Call("save", NoArgs, "ok", -1, lines, zoom, offset, returnonly),
            outf |-> "closed", storage |-> [exists |-> TRUE, text |-> lines]]

(***************************************************************************)
(* Inputs of the builder actions.                                          *)
(***************************************************************************)
P1 == <<0, 0, 0>>
P2 == <<500, 250, 0>>      \* rounds to P1 with crounding = 0
P3 == <<1500, 1000, 0>>
P4 == <<0, 0, 1000>>
Malformed == <<0, 0>>      \* a point that does not unpack into x, y, z
Points == {P1, P2, P4}
Roundings == {0, 3}
\* (zoom, offset) pairs: the defaults, and a scaling with a translation
Exports == {<<(<<1, 1, 1>>), (<<0, 0, 0>>)>>, <<(<<2, 1, 3>>), (<<0, 500, -1000>>)>>}

Flat(ps) == [i \in 1..(3 * Len(ps)) |-> ps[(i + 2) \div 3][((i - 1) % 3) + 1]]

\* Argument lists for addface: well-formed ones (with coinciding and with
\* distinct points, as points and as scalars), ones with a malformed point,
\* and ones of a wrong length.
FaceArgs ==
    {PointArgs(<<P1, P2, P3>>), PointArgs(<<P2, P3, P4>>),
     PointArgs(<<P1, Malformed, P4>>), PointArgs(<<P1, P3, Malformed>>),
     ScalarArgs(Flat(<<P1, P3, P4>>)),
     PointArgs(<<P1, P4>>), PointArgs(<<P1, P2, P3, P4>>),
     ScalarArgs(<<0, 0, 1000>>), ScalarArgs(Flat(<<P1, P2, P3, P4>>)),
     PointArgs(<<P1, P2, P3, P4, P1, P2, P3, P4, P1>>)}

\* Argument lists for addquad, likewise.
QuadArgs ==
    {PointArgs(<<P1, P2, P3, P4>>), PointArgs(<<P1, P3, Malformed, P4>>),
     PointArgs(<<P3, P4, P1, Malformed>>),
     ScalarArgs(Flat(<<P1, P2, P3, P4>>)), ScalarArgs(Flat(<<P4, P3, P2, P1>>)),
     PointArgs(<<P1, P2, P3>>), ScalarArgs(Flat(<<P1, P2, P3>>)),
     ScalarArgs(<<0, 0, 0, 1000>>)}

(***************************************************************************)
(* The builder driven through its public methods.                          *)
(***************************************************************************)
IdleGear ==
    /\ pc = "idle"
    /\ gargs = [innerrad |-> 0, outerrad |-> 0, teeth |-> 0, thickness |-> 0,
                outfile |-> "", toothfunc |-> "None", toothpts |-> 0,
                anglefunc |-> "None", vlayers |-> 0, xyrounding |-> 0]
    /\ vlayers = 0
    /\ gearprofile = <<>>
    /\ geargeometry = <<>>
    /\ layer = 0
    /\ point = 0

\* wavefront(doubleface, crounding): lines 9-17.
Init ==
    /\ vertices = <<>>
    /\ verticeset = {}
    /\ faces = <<>>
    /\ doubleface \in BOOLEAN
    /\ crounding \in Roundings
    /\ last = NoCall
    /\ outf = "none"
    /\ storage = NoFile
    /\ calls = 0
    /\ IdleGear

Called ==
    /\ calls < MaxCalls
    /\ calls' = calls + 1

AddVertex ==
    /\ Called
    /\ \E p \in Points :
        LET r == addvertex(Builder, p, crounding) IN
        /\ vertices' = r.vertices
        /\ verticeset' = r.verticeset
        /\ faces' = r.faces
        /\ last' = BuilderCall("addvertex", PointArgs(<<p>>), "ok", r.index)
        /\ UNCHANGED <<doubleface, crounding, outf, storage, gvars>>

AddFace ==
    /\ Called
    /\ \E a \in FaceArgs :
        LET r == addface(Builder, a, doubleface, crounding) IN
        /\ vertices' = r.vertices
        /\ verticeset' = r.verticeset
        /\ faces' = r.faces
        /\ last' = BuilderCall("addface", a, r.status, -1)
        /\ UNCHANGED <<doubleface, crounding, outf, storage, gvars>>

AddQuad ==
    /\ Called
    /\ \E a \in QuadArgs :
        LET r == addquad(Builder, a, doubleface, crounding) IN
        /\ vertices' = r.vertices
        /\ verticeset' = r.verticeset
        /\ faces' = r.faces
        /\ last' = BuilderCall("addquad", a, r.status, -1)
        /\ UNCHANGED <<doubleface, crounding, outf, storage, gvars>>

Save ==
    /\ Called
    /\ \E e \in Exports, returnonly \in BOOLEAN, io \in IoOutcomes :
        LET r == save(Builder, e[1], e[2], returnonly, io, storage) IN
        /\ last' = r.call
        /\ outf' = r.outf
        /\ storage' = r.storage
        /\ UNCHANGED <<bvars, gvars>>

Next == AddVertex \/ AddFace \/ AddQuad \/ Save

Spec == Init /\ [][Next]_vars

(***************************************************************************)
(* gear3dgen: float arithmetic and the math module.                        *)
(***************************************************************************)
\* a * b and a / b on floats; an int n enters an expression as n * Res.
FMul(a, b) == RoundHalfEven(a * b, Res)
FDiv(a, b) == RoundHalfEven(a * Res, b)
Abs(a) == IF a < 0 THEN -a ELSE a
Max(a, b) == IF a < b THEN b ELSE a

\* math.pi * 2
Pi2 == 6283

\* The angle a (radians) in thousandths of a turn, reduced to 0..999.
MilliTurn(a) == RoundHalfEven(a * 1000, Pi2) % 1000

\* sin over half a turn, p in 0..500 thousandths of a turn: the rational
\* approximation 16 p (h - p) / (5 h^2 - 4 p (h - p)) with h = 500, which is
\* exact at 0, 1/12, 1/4, 5/12 and 1/2 turn and strictly monotone between.
SinHalf(p) ==
    LET u == p * (500 - p) IN RoundHalfEven(Res * 16 * u, 1250000 - 4 * u)

\* math.sin, math.cos
sin(a) ==
    LET t == MilliTurn(a) IN IF t <= 500 THEN SinHalf(t) ELSE -SinHalf(t - 500)
cos(a) ==
    LET t == (MilliTurn(a) + 250) % 1000
    IN  IF t <= 500 THEN SinHalf(t) ELSE -SinHalf(t - 500)

\* The tooth and angle helpers (lines 131-144).
g_vshape(x) == Abs(500 - x) * 2
g_ashape(x) == Res - g_vshape(x)
g_sine(x) == RoundHalfEven(cos(FMul(x, Pi2)), 2) + 500
g_halfsine(x) == Max(cos(FMul(x, Pi2)), 0)

\* Calling the function passed as toothfunc / anglefunc.
Apply(f, x) ==
    CASE f = "g_vshape" -> g_vshape(x)
      [] f = "g_ashape" -> g_ashape(x)
      [] f = "g_sine" -> g_sine(x)
      [] f = "g_halfsine" -> g_halfsine(x)
      [] f = "lambda x: x / 8" -> RoundHalfEven(x, 8)
      [] f = "return 0" -> 0

\* toothfunc after its default (lines 48-49).
ToothFunc(f) == IF f = "None" THEN "g_sine" ELSE f

\* anglefunc and vlayers after the default (lines 58-61).
AngleFunc(f) == IF f = "None" THEN "return 0" ELSE f

\* EffectiveVLayers without line 61.
RequestedVLayers(f, requested) == requested

EffectiveVLayers(f, requested) == IF f = "None" THEN 2 ELSE requested

\* gearprofile (lines 52-54): one tooth sampled, scaled, repeated.
GearProfile(a) ==
    LET toothprofile == [i \in 1..a.toothpts |->
            a.innerrad + FMul(Apply(ToothFunc(a.toothfunc), FDiv(i - 1, a.toothpts)),
                              a.outerrad - a.innerrad)]
    IN  [k \in 1..(a.toothpts * a.teeth) |-> toothprofile[((k - 1) % a.toothpts) + 1]]

\* One layer of points, the first repeated at the end (lines 75-94).
\* layerz is layer * layerthickness as in the code, so the top layer lies at
\* thickness only up to the resolution of the arithmetic.
LayerPoints(profile, anglefunc, thickness, nlayers, l) ==
    LET n == Len(profile)
        gearpstep == RoundHalfEven(Pi2, n)
        layerthickness == RoundHalfEven(thickness, nlayers - 1)
        layerz == l * layerthickness
        layerprog == FDiv(l, nlayers - 1)
        anglebias == Apply(anglefunc, layerprog)
        pt(lstep) == LET langle == gearpstep * lstep + anglebias
                         lradius == profile[lstep + 1]
                     IN  <<FMul(cos(langle), lradius), FMul(sin(langle), lradius), layerz>>
    IN  [i \in 1..(n + 1) |-> IF i = n + 1 THEN pt(0) ELSE pt(i - 1)]

\* geargeometry (lines 71-97).
GearGeometry(profile, anglefunc, thickness, nlayers) ==
    [l \in 1..nlayers |-> LayerPoints(profile, anglefunc, thickness, nlayers, l - 1)]

\* The two side-wall triangles of one profile step (lines 106-111).
SideFaces(g, l, p) ==
    <<PointArgs(<<g[l + 1][p + 1], g[l + 1][p + 2], g[l + 2][p + 2]>>),
      PointArgs(<<g[l + 1][p + 1], g[l + 2][p + 2], g[l + 2][p + 1]>>)>>

\* CapFaces taking the ceiling from the first layer.
CapFacesBottomTwice(g, p, thickness) ==
    <<PointArgs(<<g[1][p + 2], g[1][p + 1], (<<0, 0, 0>>)>>),
      PointArgs(<<g[1][p + 1], g[1][p + 2], (<<0, 0, thickness>>)>>)>>

\* The floor and the ceiling triangle of one profile step (lines 116-122);
\* the centre points are the int tuples (0, 0, 0) and (0, 0, thickness).
CapFaces(g, p, thickness) ==
    <<PointArgs(<<g[1][p + 2], g[1][p + 1], (<<0, 0, 0>>)>>),
      PointArgs(<<g[Len(g)][p + 1], g[Len(g)][p + 2], (<<0, 0, thickness>>)>>)>>

(***************************************************************************)
(* Inputs of gear3dgen.                                                    *)
(***************************************************************************)
GearInputs ==
    [innerrad : {500}, outerrad : {1000, 2000}, teeth : 1..MaxTeeth,
     thickness : {1000}, outfile : {"", "None", "gear.obj"},
     toothfunc : {"None", "g_vshape", "g_ashape", "g_halfsine"},
     toothpts : 1..MaxToothPts,
     anglefunc : {"None", "lambda x: x / 8", "g_vshape"},
     vlayers : 2..MaxVLayers, xyrounding : {0, 3}]

(***************************************************************************)
(* One call of gear3dgen, stepping through its loops.                      *)
(***************************************************************************)
InitGear ==
    /\ vertices = <<>>
    /\ verticeset = {}
    /\ faces = <<>>
    /\ doubleface = FALSE
    /\ crounding = 3
    /\ last = NoCall
    /\ outf = "none"
    /\ storage = NoFile
    /\ calls = 0
    /\ pc = "start"
    /\ gargs \in GearInputs
    /\ vlayers = gargs.vlayers
    /\ gearprofile = <<>>
    /\ geargeometry = <<>>
    /\ layer = 0
    /\ point = 0

\* Data preparation, the layer loop and the builder's construction
\* (lines 41-100).
GearPrepare ==
    /\ pc = "start"
    /\ LET profile == GearProfile(gargs)
           nl == EffectiveVLayers(gargs.anglefunc, gargs.vlayers)
       IN  /\ gearprofile' = profile
           /\ vlayers' = nl
           /\ geargeometry' = GearGeometry(profile, AngleFunc(gargs.anglefunc),
                                           gargs.thickness, nl)
    /\ vertices' = <<>>
    /\ verticeset' = {}
    /\ faces' = <<>>
    /\ doubleface' = FALSE
    /\ crounding' = gargs.xyrounding
    /\ layer' = 0
    /\ point' = 0
    /\ pc' = "sides"
    /\ UNCHANGED <<last, outf, storage, gargs, calls>>

\* Two addface calls in a row on obj3d.
TwoFaces(fs) ==
    LET r1 == addface(Builder, fs[1], doubleface, crounding)
        r2 == addface(r1, fs[2], doubleface, crounding)
    IN  /\ vertices' = r2.vertices
        /\ verticeset' = r2.verticeset
        /\ faces' = r2.faces
        /\ last' = BuilderCall("addface", fs[2], r2.status, -1)
        /\ calls' = calls + 2

\* One iteration of the inner side-wall loop (lines 102-111).
GearSide ==
    /\ pc = "sides"
    /\ TwoFaces(SideFaces(geargeometry, layer, point))
    /\ IF point + 1 < Len(gearprofile)
         THEN /\ point' = point + 1
              /\ UNCHANGED <<layer, pc>>
         ELSE /\ point' = 0
              /\ layer' = layer + 1
              /\ pc' = IF layer + 1 < vlayers - 1 THEN "sides" ELSE "caps"
    /\ UNCHANGED <<doubleface, crounding, outf, storage, gargs, vlayers,
                   gearprofile, geargeometry>>

\* One iteration of the floor and ceiling loop (lines 114-122).
GearCap ==
    /\ pc = "caps"
    /\ TwoFaces(CapFaces(geargeometry, point, gargs.thickness))
    /\ IF point + 1 < Len(gearprofile)
         THEN /\ point' = point + 1
              /\ pc' = pc
         ELSE /\ point' = 0
              /\ pc' = "save"
    /\ UNCHANGED <<doubleface, crounding, outf, storage, gargs, vlayers,
                   gearprofile, geargeometry, layer>>

\* return obj3d.save(outfile, returnonly=(outfile is None)) (line 125).
GearSave ==
    /\ pc = "save"
    /\ \E io \in IoOutcomes :
        LET r == save(Builder, <<1, 1, 1>>, <<0, 0, 0>>, gargs.outfile = "None",
                      io, storage)
        IN  /\ last' = r.call
            /\ outf' = r.outf
            /\ storage' = r.storage
            /\ pc' = IF r.call.status = "ok" THEN "done" ELSE "raised"
    /\ calls' = calls + 1
    /\ UNCHANGED <<bvars, gargs, vlayers, gearprofile, geargeometry, layer, point>>

NextGear == GearPrepare \/ GearSide \/ GearCap \/ GearSave

SpecGear == InitGear /\ [][NextGear]_vars

(***************************************************************************)
(* Properties.                                                             *)
(***************************************************************************)
FaceVertices(f) == {f[1], f[2], f[3]}
Plus1(f) == <<f[1] + 1, f[2] + 1, f[3] + 1>>
\* The 0-based position of the triple v in the table vs.
VertexIndex(vs, v) == CHOOSE i \in 0..(Len(vs) - 1) : vs[i + 1] = v
\* The points an argument list of either form denotes.
PointsOf(a) ==
    IF a.form = "points" THEN a.points
    ELSE [i \in 1..(Len(a.scalars) \div 3) |->
            <<a.scalars[3 * i - 2], a.scalars[3 * i - 1], a.scalars[3 * i]>>]
NoDuplicateVertices ==
    \A i, j \in 1..Len(vertices) : vertices[i] = vertices[j] => i = j
NoOrphans ==
    \A i \in 1..Len(vertices) :
        \E k \in 1..Len(faces) : (i - 1) \in FaceVertices(faces[k])
FacesInRange ==
    \A k \in 1..Len(faces) : FaceVertices(faces[k]) \subseteq 0..(Len(vertices) - 1)

\* gear3dgen: the profile length and the layer count the spec states.
GearN == gargs.toothpts * gargs.teeth
GearV == IF gargs.anglefunc = "None" THEN 2 ELSE gargs.vlayers
\* The undirected edges of the mesh: two distinct indices adjacent in a face.
Edges ==
    {e \in UNION {{{faces[k][1], faces[k][2]}, {faces[k][2], faces[k][3]},
                   {faces[k][1], faces[k][3]}} : k \in 1..Len(faces)} :
        Cardinality(e) = 2}
\* The faces an edge belongs to.
FacesOfEdge(e) == {k \in 1..Len(faces) : e \subseteq FaceVertices(faces[k])}
Watertight == \A e \in Edges : Cardinality(FacesOfEdge(e)) = 2

\* C1 as stated: in the mesh gear3dgen has built, every undirected edge
\* belongs to exactly two faces, for every profile length including 1 and 2.
C1_Watertight == pc = "done" => Watertight

\* C1 amended: when the profile has at least 3 points and rounding has merged
\* no two generated points (the mesh has N V + 2 vertices), every undirected
\* edge of the finished mesh belongs to exactly two faces.
C1_WatertightFrom3 ==
    (/\ pc \in {"save", "done", "raised"}
     /\ GearN >= 3
     /\ Len(vertices) = GearN * GearV + 2) => Watertight

\* C1 witness: a twisted gear of three layers whose points are all distinct
\* has been finished.
C1_Witness ==
    /\ pc = "done"
    /\ GearN >= 3
    /\ gargs.anglefunc # "None"
    /\ GearV = 3
    /\ Len(vertices) = GearN * GearV + 2
    /\ Watertight

\* C2: the vertex table never holds two equal rounded triples; no step
\* changes, removes or reorders an entry already in the table; and an
\* addvertex call returns the position of its rounded triple, adding one
\* entry when the triple is new and none when it is present.  (Hence two
\* calls with triples that round alike return the same index whatever
\* happens in between.)
C2_VertexTable ==
    /\ []NoDuplicateVertices
    /\ [][/\ Len(vertices') >= Len(vertices)
          /\ \A i \in 1..Len(vertices) : vertices'[i] = vertices[i]
          /\ last'.op = "addvertex" =>
                LET v == RoundPoint(last'.args.points[1], crounding) IN
                /\ last'.index \in 0..(Len(vertices') - 1)
                /\ vertices'[last'.index + 1] = v
                /\ Len(vertices') =
                     IF \E i \in 1..Len(vertices) : vertices[i] = v
                       THEN Len(vertices) ELSE Len(vertices) + 1]_vars

\* C2 witness: addvertex returned the index of an older entry, for an
\* argument that differs from the stored triple before rounding.
C2_Witness ==
    /\ last.op = "addvertex"
    /\ Len(vertices) = 2
    /\ last.index = 0
    /\ last.args.points[1] # vertices[1]

\* C3 as stated: in every reachable state of a builder every vertex of the
\* table is referenced by at least one face.
C3_NoOrphansAlways == NoOrphans

\* C3 amended: a call of addface or addquad that returns normally or fails
\* with the argument-count error, and any call of save, leaves every vertex
\* referenced if every vertex was referenced before it.
C3_NoOrphansKept ==
    [][(/\ NoOrphans
        /\ \/ last'.op = "save"
           \/ /\ last'.op \in {"addface", "addquad"}
              /\ last'.status \in {"ok", "ReferenceError"})
       => NoOrphans']_vars

\* C3 witness: a quad has been added to a builder that already held a face,
\* and every vertex is referenced.
C3_Witness ==
    /\ last.op = "addquad"
    /\ last.status = "ok"
    /\ Len(vertices) >= 3
    /\ Len(faces) >= 3
    /\ NoOrphans

\* C4: when save has returned or raised, the handle it opened is closed.
C4_HandleReleased == last.op = "save" => outf # "open"

\* C5: addface with an argument count other than 3 or 9, and addquad with
\* one other than 4 or 12, fails with the argument-count error and leaves
\* the vertex table and the face list as they were.
C5_BadCountRejected ==
    [][(\/ last'.op = "addface" /\ NArgs(last'.args) \notin {3, 9}
        \/ last'.op = "addquad" /\ NArgs(last'.args) \notin {4, 12})
       => /\ last'.status = "ReferenceError"
          /\ vertices' = vertices
          /\ verticeset' = verticeset
          /\ faces' = faces]_vars

\* C5 witness: a call with a wrong argument count has failed on a builder
\* that holds vertices and faces.
C5_Witness ==
    /\ last.op \in {"addface", "addquad"}
    /\ last.status = "ReferenceError"
    /\ Len(vertices) >= 2
    /\ Len(faces) >= 1

\* C6: gear3dgen emits 2 N (V - 1) side-wall triangles, then N floor and N
\* ceiling triangles, with V = 2 when no anglefunc is given and V = vlayers
\* otherwise, on at most N V + 2 vertices.
C6_FaceCounts ==
    LET side == 2 * GearN * (GearV - 1)
        caps == (side + 1)..Len(faces)
        third(k) == vertices[faces[k][3] + 1]
    IN  /\ (pc = "caps" /\ point = 0) => Len(faces) = side
        /\ pc \in {"save", "done", "raised"} =>
             /\ Len(faces) = side + 2 * GearN
             /\ Cardinality({k \in caps : k % 2 = 1}) = GearN
             /\ \A k \in caps :
                  third(k) = IF k % 2 = 1
                               THEN RoundPoint(<<0, 0, 0>>, crounding)
                               ELSE RoundPoint(<<0, 0, gargs.thickness>>, crounding)
             /\ Len(vertices) <= GearN * GearV + 2

\* C6 witness: a call without anglefunc that asked for more than 2 layers
\* has finished.
C6_Witness ==
    /\ pc = "done"
    /\ gargs.anglefunc = "None"
    /\ gargs.vlayers > 2
    /\ GearN >= 3
    /\ Len(faces) = 4 * GearN

\* C7: the text save returns is the header, one v line per vertex in table
\* order, 's off', and one f line per face in list order whose operands are
\* the stored indices plus 1; every f operand is between 1 and the number of
\* v lines.
C7_SaveText ==
    /\ FacesInRange
    /\ (last.op = "save" /\ last.status = "ok") =>
         LET c == last.content
             nv == Len(vertices)
             nf == Len(faces)
         IN  /\ Len(c) = nv + nf + 2
             /\ c[1].tag = "o mainobject"
             /\ \A i \in 1..nv :
                  /\ c[1 + i].tag = "v"
                  /\ c[1 + i].ops = Transform(vertices[i], last.zoom, last.offset)
             /\ c[nv + 2].tag = "s off"
             /\ \A k \in 1..nf :
                  /\ c[nv + 2 + k].tag = "f"
                  /\ c[nv + 2 + k].ops = Plus1(faces[k])
                  /\ \A d \in 1..3 : c[nv + 2 + k].ops[d] \in 1..nv

\* C7 witness: a mesh of several vertices and faces has been saved.
C7_Witness ==
    /\ last.op = "save"
    /\ last.status = "ok"
    /\ Len(vertices) >= 3
    /\ Len(faces) >= 2

\* C8: a successful addface appends two faces on a double-sided builder, the
\* second the first in reverse index order, and one face on a single-sided
\* builder.
C8_DoubleFace ==
    [][(last'.op = "addface" /\ last'.status = "ok") =>
         LET n == Len(faces) IN
         /\ SubSeq(faces', 1, n) = faces
         /\ IF doubleface
              THEN /\ Len(faces') = n + 2
                   /\ faces'[n + 2] = <<faces'[n + 1][3], faces'[n + 1][2],
                                        faces'[n + 1][1]>>
              ELSE Len(faces') = n + 1]_vars

\* C8 witness: a double-sided builder has taken a triangle of three
\* different vertices.
C8_Witness ==
    /\ doubleface
    /\ last.op = "addface"
    /\ last.status = "ok"
    /\ Len(faces) = 2
    /\ Cardinality(FaceVertices(faces[1])) = 3

\* C9: a successful addquad on a single-sided builder appends the faces
\* (idx p1, idx p2, idx p3) and (idx p1, idx p3, idx p4), in that order,
\* whether the points came as four triples or as twelve scalars; the faces
\* cover the four points' indices and share the diagonal p1-p3.
C9_QuadSplit ==
    [][(last'.op = "addquad" /\ last'.status = "ok" /\ ~doubleface) =>
         LET ps == PointsOf(last'.args)
             idx(i) == VertexIndex(vertices', RoundPoint(ps[i], crounding))
             f1 == <<idx(1), idx(2), idx(3)>>
             f2 == <<idx(1), idx(3), idx(4)>>
         IN  /\ Len(ps) = 4
             /\ faces' = faces \o <<f1, f2>>
             /\ FaceVertices(f1) \cup FaceVertices(f2) = {idx(i) : i \in 1..4}
             /\ {idx(1), idx(3)} \subseteq FaceVertices(f1) \cap FaceVertices(f2)]_vars

\* C9 witness: a quad of four different vertices, given as twelve scalars,
\* has been added to a single-sided builder.
C9_Witness ==
    /\ ~doubleface
    /\ last.op = "addquad"
    /\ last.status = "ok"
    /\ last.args.form = "scalars"
    /\ Len(vertices) = 4

\* C10: save leaves the vertex table and the face list as they were; with
\* returnonly it opens and writes nothing and returns the content, otherwise
\* a successful save has written the content it returns; a save repeated
\* with the same zoom and offset returns the same text.
C10_SaveFrame ==
    [][last'.op = "save" =>
         /\ vertices' = vertices
         /\ verticeset' = verticeset
         /\ faces' = faces
         /\ last'.returnonly =>
              /\ last'.status = "ok"
              /\ Len(last'.content) = Len(vertices) + Len(faces) + 2
              /\ outf' = "none"
              /\ storage' = storage
         /\ (~last'.returnonly /\ last'.status = "ok") =>
              /\ Len(last'.content) = Len(vertices) + Len(faces) + 2
              /\ storage' = [exists |-> TRUE, text |-> last'.content]
         /\ (/\ last.op = "save" /\ last.status = "ok" /\ last'.status = "ok"
             /\ last.zoom = last'.zoom /\ last.offset = last'.offset)
            => last'.content = last.content]_vars

\* C10 witness: a scaled mesh has been returned by save with returnonly
\* while no file exists.
C10_Witness ==
    /\ last.op = "save"
    /\ last.returnonly
    /\ last.zoom # <<1, 1, 1>>
    /\ Len(last.content) >= 5
    /\ ~storage.exists

====
